---- MODULE Spec2Model ----
(***************************************************************************)
(* Eggsembly: lexer (src/src/lexer.rs), recursive-descent parser           *)
(* (src/src/parser.rs), compiler (src/src/compiler.rs) and the driver      *)
(* (src/src/main.rs), as one state machine over a source text.             *)
(*                                                                         *)
(* A source text is a sequence of characters, each character a string.     *)
(* Rust's Option::None is the value None (tokens) or NoChar (characters).  *)
(* A call that does not return normally ends in one of three ways:         *)
(*   "exit"  point_error printed the diagnostic and called process::exit(1)*)
(*   "panic" the thread panicked (arithmetic overflow, slice out of range, *)
(*           todo!(), unreachable!())                                      *)
(*   "hang"  a loop whose body leaves the state unchanged runs forever     *)
(***************************************************************************)
EXTENDS Integers, Sequences, FiniteSets, TLC

VARIABLES input, pc, lexer, toks, stmts, idx, code, diag, fault

vars == <<input, pc, lexer, toks, stmts, idx, code, diag, fault>>

(***************************************************************************)
(* Bounds of the checked inputs.                                           *)
(***************************************************************************)
\* The longest text over RawAlphabet.
MaxRaw == 4

\* The most statements of a text of StmtInputs.
MaxStmts == 2

\* The most binary operators of a text of BinaryInputs.
MaxOps == 2

\* The longest expression over ExprAlphabet.
MaxExpr == 3

\* The deepest nesting of a factor of UnaryInputs.
MaxDepth == 1

(***************************************************************************)
(* Characters.                                                             *)
(***************************************************************************)
NoChar == "None"

Lower == {"a","b","c","d","e","f","g","h","i","j","k","l","m",
          "n","o","p","q","r","s","t","u","v","w","x","y","z"}

Upper == {"A","B","C","D","E","F","G","H","I","J","K","L","M",
          "N","O","P","Q","R","S","T","U","V","W","X","Y","Z"}

Digit == {"0","1","2","3","4","5","6","7","8","9"}

\* An alphabetic character outside ASCII (U+00E9, two bytes in UTF-8).
EAcute == "U+00E9"

NonAsciiAlphabetic == {EAcute}

is_digit(c) == c \in Digit

is_alphabetic(c) == c \in Lower \cup Upper \cup NonAsciiAlphabetic

\* Characters that char::is_whitespace accepts.
Whitespace == {" ", "\n", "\t", "\r"}

\* The pattern 'a'..='z' | 'A'..='Z' | '0'..='9' | '_' of lex_ident.
IdentChar == Lower \cup Upper \cup Digit \cup {"_"}

\* The UTF-8 length of a character.
len_utf8(c) == IF c \in NonAsciiAlphabetic THEN 2 ELSE 1

(***************************************************************************)
(* Strings are indexed by byte offset (&input[a..b], input.len(), find)    *)
(* while the text is a sequence of characters.                             *)
(***************************************************************************)
RECURSIVE ByteOffset(_, _)
\* The byte offset at which character number k (0-based) of s starts.
ByteOffset(s, k) == IF k = 0 THEN 0 ELSE ByteOffset(s, k - 1) + len_utf8(s[k])

StrLen(s) == ByteOffset(s, Len(s))

\* The character index whose start is byte offset b, or -1 off a boundary.
CharIndex(s, b) ==
  IF \E k \in 0..Len(s) : ByteOffset(s, k) = b
  THEN CHOOSE k \in 0..Len(s) : ByteOffset(s, k) = b
  ELSE -1

\* &s[a..b]: ok is FALSE where Rust panics (order, range, char boundary).
StrSlice(s, a, b) ==
  LET ka == CharIndex(s, a)
      kb == CharIndex(s, b)
  IN  IF a <= b /\ ka >= 0 /\ kb >= 0
      THEN [ok |-> TRUE, s |-> SubSeq(s, ka + 1, kb)]
      ELSE [ok |-> FALSE, s |-> <<>>]

\* s.find('\n'): the byte offset of the first newline of s, or -1.
FindNewline(s) ==
  IF \E i \in 1..Len(s) : s[i] = "\n"
  THEN ByteOffset(s, (CHOOSE i \in 1..Len(s) :
                        s[i] = "\n" /\ \A j \in 1..(i - 1) : s[j] # "\n") - 1)
  ELSE -1

(***************************************************************************)
(* Tokens.                                                                 *)
(***************************************************************************)
None == [k |-> "None", v |-> <<>>]

Tok(kind) == [k |-> kind, v |-> <<>>]

TokV(kind, val) == [k |-> kind, v |-> val]

\* Token's derived PartialEq.
TokenEq(a, b) == a.k = b.k /\ a.v = b.v

KEYWORDS ==
  (<<"l","e","t">> :> Tok("Let")) @@
  (<<"b","u","i","l","d">> :> Tok("Build")) @@
  (<<"h","a","t","c","h">> :> Tok("Hatch")) @@
  (<<"p","u","s","h">> :> Tok("Push")) @@
  (<<"T","O","P">> :> Tok("Top")) @@
  (<<"a","x","e">> :> Tok("Axe")) @@
  (<<"c","h","i","c","k","e","n">> :> Tok("Chicken")) @@
  (<<"a","d","d">> :> Tok("Add")) @@
  (<<"f","o","x">> :> Tok("Fox")) @@
  (<<"r","o","o","s","t","e","r">> :> Tok("Rooster")) @@
  (<<"c","o","m","p","a","r","e">> :> Tok("Cmp")) @@
  (<<"p","i","c","k">> :> Tok("Pick")) @@
  (<<"p","e","c","k">> :> Tok("Peck")) @@
  (<<"f","r">> :> Tok("Fr")) @@
  (<<"b","b","q">> :> Tok("Bbq"))

\* The single-character tokens of lex_token.
Punctuation ==
  ("+" :> "Plus") @@ ("-" :> "Sub") @@ ("*" :> "Mul") @@ ("/" :> "Div") @@
  ("(" :> "LParen") @@ (")" :> "RParen") @@ ("[" :> "LBracket") @@
  ("]" :> "RBracket") @@ ("{" :> "LBrace") @@ ("}" :> "RBrace") @@
  ("," :> "Comma") @@ ("=" :> "Eq") @@ (";" :> "Semi")

(***************************************************************************)
(* Let(v, F) is F(v) with v evaluated once.                                *)
(***************************************************************************)
Let(v, F(_)) == CHOOSE r \in {F(x) : x \in {v}} : TRUE

(***************************************************************************)
(* Results of a call: st is "ok", "exit", "panic" or "hang"; lx the lexer  *)
(* after it; v the value returned; diag the message printed; fault the     *)
(* reason of a panic or hang.                                              *)
(***************************************************************************)
NoDiag == "none"

NoFault == "none"

Ok(lx, v) == [st |-> "ok", lx |-> lx, v |-> v, diag |-> NoDiag, fault |-> NoFault]

Panic(lx, why) == [st |-> "panic", lx |-> lx, v |-> None, diag |-> NoDiag, fault |-> why]

Hang(lx, why) == [st |-> "hang", lx |-> lx, v |-> None, diag |-> NoDiag, fault |-> why]

(***************************************************************************)
(* Lexer.                                                                  *)
(***************************************************************************)
\* chars.next() after pos calls of step_chr: character number pos (0-based).
CharAt(s, i) == IF i < Len(s) THEN s[i + 1] ELSE NoChar

\* The checks of point_error in the order it makes them: NoFault when the
\* diagnostic is rendered and the process exits with status 1, else the
\* reason of the panic.  usize arithmetic that goes below zero panics in a
\* debug build; in a release build it wraps to a value that makes the slice
\* or the allocation panic.
PointErrorChecks(lx, len, rest) ==
  Let(FindNewline(rest.s), LAMBDA n :
    Let(IF n >= 0 THEN lx.pos + n - 1 ELSE len - 1, LAMBDA line_end :
      IF ~rest.ok THEN "slice"
      ELSE IF line_end < 0 THEN "overflow"
      ELSE IF lx.pos - lx.col < 0 THEN "overflow"
      ELSE IF ~StrSlice(lx.input, lx.pos - lx.col + 1, line_end + 1).ok THEN "slice"
      ELSE IF lx.col - 2 < 0 THEN "overflow"
      ELSE NoFault))

point_error(lx) ==
  Let(StrLen(lx.input), LAMBDA len :
    Let(StrSlice(lx.input, lx.pos, len), LAMBDA rest : PointErrorChecks(lx, len, rest)))

\* A message is printed, then point_error runs.
Fatal(lx, msg) ==
  Let(point_error(lx), LAMBDA f :
    [st |-> IF f = NoFault THEN "exit" ELSE "panic",
     lx |-> lx, v |-> None, diag |-> msg, fault |-> f])

step_chr(lx) ==
  Let(CharAt(lx.input, lx.pos + 1), LAMBDA c :
    [lx EXCEPT !.pos = lx.pos + 1,
               !.cur_char = c,
               !.line = IF c = "\n" THEN lx.line + 1 ELSE lx.line,
               !.col = IF c = "\n" THEN 0 ELSE lx.col + 1])

\* A predicate on characters: membership in, or absence from, a set.
In(S) == [neg |-> FALSE, set |-> S]

NotIn(S) == [neg |-> TRUE, set |-> S]

Holds(pred, c) == IF pred.neg THEN c \notin pred.set ELSE c \in pred.set

RECURSIVE consume_while(_, _)
consume_while(lx, pred) ==
  IF lx.cur_char # NoChar /\ Holds(pred, lx.cur_char)
  THEN Let(step_chr(lx), LAMBDA lx1 : consume_while(lx1, pred))
  ELSE lx

consume_digits(lx) == consume_while(lx, In(Digit))

skip_whitespace(lx) == consume_while(lx, In(Whitespace))

RECURSIVE DecimalValue(_)
\* str::parse::<i64> of a run of decimal digits.
DecimalValue(s) ==
  IF s = <<>> THEN 0
  ELSE 10 * DecimalValue(SubSeq(s, 1, Len(s) - 1))
       + (CHOOSE d \in 0..9 : <<"0","1","2","3","4","5","6","7","8","9">>[d + 1] = s[Len(s)])

RECURSIVE StripTrailingZeros(_)
StripTrailingZeros(s) ==
  IF s # <<>> /\ s[Len(s)] = "0" THEN StripTrailingZeros(SubSeq(s, 1, Len(s) - 1)) ELSE s

\* str::parse::<f64> of digits '.' digits: the integer part and the
\* fraction's digits without trailing zeros.
FloatValue(s) ==
  Let(CHOOSE i \in 1..Len(s) : s[i] = ".", LAMBDA dot :
    <<DecimalValue(SubSeq(s, 1, dot - 1)), StripTrailingZeros(SubSeq(s, dot + 1, Len(s)))>>)

\* The token of lex_number from the slice input[start..pos].
NumberToken(lx, start, kind) ==
  Let(StrSlice(lx.input, start, lx.pos), LAMBDA sl :
    IF ~sl.ok THEN Panic(lx, "slice")
    ELSE IF kind = "Float" THEN Ok(lx, TokV("Float", FloatValue(sl.s)))
    ELSE Ok(lx, TokV("Int", DecimalValue(sl.s))))

lex_number(lx) ==
  Let(consume_digits(lx), LAMBDA lx1 :
    IF lx1.cur_char = "."
    THEN Let(step_chr(lx1), LAMBDA lx2 :
           Let(consume_digits(lx2), LAMBDA lx3 : NumberToken(lx3, lx.pos, "Float")))
    ELSE NumberToken(lx1, lx.pos, "Int"))

lex_ident(lx) ==
  Let(consume_while(lx, In(IdentChar)), LAMBDA lx1 :
    Let(StrSlice(lx.input, lx.pos, lx1.pos), LAMBDA ret :
      IF ~ret.ok THEN Panic(lx1, "slice")
      ELSE IF ret.s \in DOMAIN KEYWORDS THEN Ok(lx1, KEYWORDS[ret.s])
      ELSE Ok(lx1, TokV("Identifier", ret.s))))

RECURSIVE lex_string_loop(_, _)

\* The escape arm of the loop of lex_string: consume_char('\\') succeeded
\* and lx2 stands on the escaped character.
lex_string_escape(lx2, ret1) ==
  IF lx2.cur_char \in {"n", "t", "\""}
  THEN Let(step_chr(lx2), LAMBDA lx3 :
         Let(Append(ret1, IF lx2.cur_char = "n" THEN "\n"
                          ELSE IF lx2.cur_char = "t" THEN "\t" ELSE "\""),
             LAMBDA ret2 : lex_string_loop(lx3, ret2)))
  ELSE IF lx2.cur_char = NoChar
  THEN Fatal(lx2, "Unexpected end of input while parsing string")
  ELSE Fatal(lx2, "Invalid escape sequence")

\* What follows consume_while and push_str in an iteration that started in
\* the lexer state lx with the string ret.
lex_string_branch(lx, ret, lx1, ret1) ==
  IF lx1.cur_char = "\\" THEN Let(step_chr(lx1), LAMBDA lx2 : lex_string_escape(lx2, ret1))
  ELSE IF lx1.cur_char = "\"" THEN Let(step_chr(lx1), LAMBDA lx2 : Ok(lx2, TokV("String", ret1)))
  \* Neither consume_char succeeded: the loop goes round again.  When the
  \* iteration changed nothing, every later one is the same.
  ELSE IF lx1 = lx /\ ret1 = ret THEN Hang(lx1, "lex_string loop")
  ELSE lex_string_loop(lx1, ret1)

\* One iteration of the loop of lex_string, then the rest of the loop.
lex_string_loop(lx, ret) ==
  Let(consume_while(lx, NotIn({"\\", "\""})), LAMBDA lx1 :
    Let(StrSlice(lx.input, lx.pos, lx1.pos), LAMBDA sl :
      IF ~sl.ok THEN Panic(lx1, "slice")
      ELSE Let(ret \o sl.s, LAMBDA ret1 : lex_string_branch(lx, ret, lx1, ret1))))

\* lex_string is entered on a '"', which its first consume_char consumes.
lex_string(lx) == Let(step_chr(lx), LAMBDA lx1 : lex_string_loop(lx1, <<>>))

\* The match of lex_token on the current character.
lex_token_match(lx) ==
  IF lx.cur_char = NoChar THEN Ok(lx, None)
  ELSE IF lx.cur_char \in DOMAIN Punctuation
  THEN Let(step_chr(lx), LAMBDA lx1 : Ok(lx1, Tok(Punctuation[lx.cur_char])))
  ELSE IF lx.cur_char = "\"" THEN lex_string(lx)
  ELSE IF is_digit(lx.cur_char) THEN lex_number(lx)
  ELSE IF is_alphabetic(lx.cur_char) \/ lx.cur_char = "_" THEN lex_ident(lx)
  ELSE Fatal(lx, "Invalid character")

\* lex_token: v is the token returned; the field lookahead is not touched.
lex_token(lx) == Let(skip_whitespace(lx), LAMBDA lx1 : lex_token_match(lx1))

\* self.lookahead = self.lex_token()
step_token(lx) ==
  Let(lex_token(lx), LAMBDA r :
    IF r.st = "ok" THEN Ok([r.lx EXCEPT !.lookahead = r.v], None) ELSE r)

\* The struct literal of Lexer::new and its first chars.next().
RawLexer(s) ==
  [input |-> s, cur_char |-> CharAt(s, 0), line |-> 1, col |-> 0, pos |-> 0,
   lookahead |-> None]

\* Lexer::new
LexerNew(s) == Let(RawLexer(s), LAMBDA lx : step_token(lx))

\* The message of match_token, "Expected {:?} on line ...".
ExpectedMessage(expected) ==
  IF expected.k = "Semi" THEN "Expected Semi"
  ELSE IF expected.k = "RParen" THEN "Expected RParen"
  ELSE "Expected an operator"

match_token(lx, expected) ==
  IF TokenEq(lx.lookahead, expected)
  THEN step_token(lx)
  ELSE Fatal(lx, ExpectedMessage(expected))

(***************************************************************************)
(* Parser.  Expressions and statements are records tagged by k.  A parsing *)
(* operator returns the lexer after it and, in v, what it parsed.          *)
(***************************************************************************)
IntExpr(n) == [k |-> "Int", v |-> n]

FloatExpr(x) == [k |-> "Float", v |-> x]

BinOp(op, left, right) == [k |-> "BinOp", op |-> op, left |-> left, right |-> right]

UnOp(op, operand) == [k |-> "UnOp", op |-> op, operand |-> operand]

FunctionCall(name, args) == [k |-> "FunctionCall", name |-> name, args |-> args]

Variable(name) == [k |-> "Variable", name |-> name]

Stmt(kind) == [k |-> kind]

PushStmt(e) == [k |-> "Push", expr |-> e]

\* The keyword tokens parse_stmt turns into the statement of the same name.
ZeroArgTokens == {"Axe", "Chicken", "Add", "Fox", "Rooster", "Cmp", "Pick", "Peck", "Fr", "Bbq"}

\* r when the call that returned r did not return normally, else F(r).
Then(r, F(_)) == Let(r, LAMBDA x : IF x.st # "ok" THEN x ELSE F(x))

RECURSIVE parse_expr(_)
RECURSIVE parse_expr_tail(_, _)
RECURSIVE parse_term(_)
RECURSIVE parse_term_tail(_, _)
RECURSIVE parse_factor(_)
RECURSIVE parse_argument_loop(_, _)

parse_expr(lx) == Then(parse_term(lx), LAMBDA l : parse_expr_tail(l.lx, l.v))

\* parse_expr_tail with the right operand parsed by parse_expr, which nests
\* the operators of a level to the right.
parse_expr_tail_right(lx, left) ==
  IF lx.lookahead.k \in {"Plus", "Sub"}
  THEN Then(match_token(lx, Tok(lx.lookahead.k)), LAMBDA m :
         Then(parse_expr(m.lx), LAMBDA r : Ok(r.lx, BinOp(lx.lookahead.k, left, r.v))))
  ELSE Ok(lx, left)

parse_expr_tail(lx, left) ==
  IF lx.lookahead.k \in {"Plus", "Sub"}
  THEN Then(match_token(lx, Tok(lx.lookahead.k)), LAMBDA m :
         Then(parse_term(m.lx), LAMBDA r :
           Let(BinOp(lx.lookahead.k, left, r.v), LAMBDA e : parse_expr_tail(r.lx, e))))
  ELSE Ok(lx, left)

parse_term(lx) == Then(parse_factor(lx), LAMBDA l : parse_term_tail(l.lx, l.v))

parse_term_tail(lx, left) ==
  IF lx.lookahead.k \in {"Mul", "Div"}
  THEN Then(match_token(lx, Tok(lx.lookahead.k)), LAMBDA m :
         Then(parse_factor(m.lx), LAMBDA r :
           Let(BinOp(lx.lookahead.k, left, r.v), LAMBDA e : parse_term_tail(r.lx, e))))
  ELSE Ok(lx, left)

\* The while loop of parse_argument_list.
parse_argument_loop(lx, args) ==
  IF lx.lookahead.k = "Comma"
  THEN Then(step_token(lx), LAMBDA s :
         Then(parse_expr(s.lx), LAMBDA e :
           Let(Append(args, e.v), LAMBDA args1 : parse_argument_loop(e.lx, args1))))
  ELSE Ok(lx, args)

parse_argument_list(lx) ==
  IF lx.lookahead.k # "RParen"
  THEN Then(parse_expr(lx), LAMBDA e : parse_argument_loop(e.lx, <<e.v>>))
  ELSE Ok(lx, <<>>)

\* The Identifier arm of parse_factor, after its step_token.
parse_factor_ident(lx, name) ==
  IF lx.lookahead.k = "LParen"
  THEN Then(step_token(lx), LAMBDA s :
         Then(parse_argument_list(s.lx), LAMBDA a :
           Then(match_token(a.lx, Tok("RParen")), LAMBDA m :
             Ok(m.lx, FunctionCall(name, a.v)))))
  ELSE Ok(lx, Variable(name))

parse_factor(lx) ==
  IF lx.lookahead.k = "Int"
  THEN Then(step_token(lx), LAMBDA s : Ok(s.lx, IntExpr(lx.lookahead.v)))
  ELSE IF lx.lookahead.k \in {"Sub", "Plus"}
  THEN Then(step_token(lx), LAMBDA s :
         Then(parse_factor(s.lx), LAMBDA f : Ok(f.lx, UnOp(lx.lookahead.k, f.v))))
  ELSE IF lx.lookahead.k = "Float"
  THEN Then(step_token(lx), LAMBDA s : Ok(s.lx, FloatExpr(lx.lookahead.v)))
  ELSE IF lx.lookahead.k = "LParen"
  THEN Then(step_token(lx), LAMBDA s :
         Then(parse_expr(s.lx), LAMBDA e :
           Then(match_token(e.lx, Tok("RParen")), LAMBDA m : Ok(m.lx, e.v))))
  ELSE IF lx.lookahead.k = "Identifier"
  THEN Then(step_token(lx), LAMBDA s : parse_factor_ident(s.lx, lx.lookahead.v))
  ELSE Fatal(lx, "Expected an expression")

\* parse_stmt: v is the statement, or None.
parse_stmt(lx) ==
  IF lx.lookahead.k \in ZeroArgTokens
  THEN Then(step_token(lx), LAMBDA s : Ok(s.lx, Stmt(lx.lookahead.k)))
  ELSE IF lx.lookahead.k = "Push"
  THEN Then(step_token(lx), LAMBDA s :
         Then(parse_expr(s.lx), LAMBDA e : Ok(e.lx, PushStmt(e.v))))
  ELSE IF lx.lookahead.k = "None" THEN Ok(lx, None)
  ELSE Fatal(lx, "Unexpected token")

\* One iteration of the loop of parse_stmt_seq: v is the statement pushed,
\* or None when the loop breaks.
parse_stmt_seq_iter(lx) ==
  Then(parse_stmt(lx), LAMBDA p :
    IF p.v.k = "None" THEN p
    ELSE Then(match_token(p.lx, Tok("Semi")), LAMBDA m : Ok(m.lx, p.v)))

RECURSIVE parse_stmt_seq_loop(_, _)
parse_stmt_seq_loop(lx, seq) ==
  Then(parse_stmt_seq_iter(lx), LAMBDA r :
    IF r.v.k = "None" THEN Ok(r.lx, seq)
    ELSE Let(Append(seq, r.v), LAMBDA seq1 : parse_stmt_seq_loop(r.lx, seq1)))

\* Parser::parse: v is the vector of Stmt::StmtSeq.
parse_stmt_seq(lx) == parse_stmt_seq_loop(lx, <<>>)

(***************************************************************************)
(* Compiler.  An instruction is a variant of Code with its operand, if any.*)
(* A compiling operator takes the code vector and returns it extended.     *)
(***************************************************************************)
\* The variants of the enum Code.
Code == {"Axe", "Chicken", "Add", "Fox", "Rooster", "Pick", "Peck", "Fr", "Bbq",
         "Push", "PushFloat", "PushVariable", "CallFunc", "Div"}

Instr(op) == [op |-> op, arg |-> <<>>]

InstrV(op, a) == [op |-> op, arg |-> <<a>>]

Compiled(c) == [st |-> "ok", code |-> c, fault |-> NoFault]

CompilePanic(c, why) == [st |-> "panic", code |-> c, fault |-> why]

\* The statements compile_stmt has an arm for, each pushing the Code of the
\* same name; every other statement reaches the arm _ => todo!().
CompiledStmts == {"Axe", "Chicken", "Add", "Fox", "Rooster", "Pick", "Peck", "Fr", "Bbq"}

\* The match on op that ends the BinOp arm of compile_expr.
BinOpCode(c, op) ==
  IF op = "Plus" THEN Compiled(Append(c, Instr("Add")))
  ELSE IF op = "Sub" THEN Compiled(Append(c, Instr("Fox")))
  ELSE IF op = "Mul" THEN Compiled(Append(c, Instr("Rooster")))
  ELSE IF op = "Div" THEN Compiled(Append(c, Instr("Div")))
  ELSE CompilePanic(c, "Unexpected operator")

RECURSIVE compile_expr(_, _)
RECURSIVE compile_args(_, _)

\* The UnOp arm with the operands of the subtraction exchanged.
compile_unop_swapped(c, e) ==
  IF e.op = "Sub" THEN compile_expr(c, BinOp("Sub", e.operand, IntExpr(0)))
  ELSE IF e.op = "Add" THEN compile_expr(c, e.operand)
  ELSE CompilePanic(c, "unreachable")

\* The UnOp arm of compile_expr.
compile_unop(c, e) ==
  IF e.op = "Sub" THEN compile_expr(c, BinOp("Sub", IntExpr(0), e.operand))
  ELSE IF e.op = "Add" THEN compile_expr(c, e.operand)
  ELSE CompilePanic(c, "unreachable")

\* The BinOp arm of compile_expr.
compile_binop(c, e) ==
  Then(compile_expr(c, e.left), LAMBDA l :
    Then(compile_expr(l.code, e.right), LAMBDA r : BinOpCode(r.code, e.op)))

\* The for loop of the FunctionCall arm.
compile_args(c, args) ==
  IF args = <<>> THEN Compiled(c)
  ELSE Then(compile_expr(c, Head(args)), LAMBDA a :
         Let(Tail(args), LAMBDA rest : compile_args(a.code, rest)))

compile_expr(c, e) ==
  IF e.k = "Int" THEN Compiled(Append(c, InstrV("Push", e.v)))
  ELSE IF e.k = "Float" THEN Compiled(Append(c, InstrV("PushFloat", e.v)))
  ELSE IF e.k = "UnOp" THEN Let(e, LAMBDA u : compile_unop(c, u))
  ELSE IF e.k = "BinOp" THEN Let(e, LAMBDA b : compile_binop(c, b))
  ELSE IF e.k = "FunctionCall"
  THEN Then(compile_args(c, e.args), LAMBDA a :
         Compiled(Append(a.code, InstrV("CallFunc", e.name))))
  ELSE Compiled(Append(c, InstrV("PushVariable", e.name)))

\* compile_stmt of a statement that is not a StmtSeq.
compile_stmt(c, stmt) ==
  IF stmt.k \in CompiledStmts THEN Compiled(Append(c, Instr(stmt.k)))
  ELSE IF stmt.k = "Push" THEN compile_expr(c, stmt.expr)
  ELSE CompilePanic(c, "not yet implemented")

RECURSIVE compile_stmt_seq(_, _)
\* compile_stmt of Stmt::StmtSeq(seq), from the code so far on.
compile_stmt_seq(c, seq) ==
  IF seq = <<>> THEN Compiled(c)
  ELSE Then(compile_stmt(c, Head(seq)), LAMBDA r :
         Let(Tail(seq), LAMBDA rest : compile_stmt_seq(r.code, rest)))

(***************************************************************************)
(* The source texts checked.                                               *)
(***************************************************************************)
RECURSIVE Flatten(_)
Flatten(ss) == IF ss = <<>> THEN <<>> ELSE Head(ss) \o Flatten(Tail(ss))

SeqsUpTo(S, n) == UNION {[1..m -> S] : m \in 0..n}

\* Any text over a quote, a backslash, a letter, a newline and a non-ASCII
\* letter.
RawAlphabet == {"\"", "\\", "n", "\n", EAcute}

RawInputs == SeqsUpTo(RawAlphabet, MaxRaw)

KeywordTexts == {w \in DOMAIN KEYWORDS : KEYWORDS[w].k \in ZeroArgTokens}

\* A statement followed by a semicolon or by a space.
StmtUnits ==
  {w \o sep : w \in KeywordTexts \cup {<<"p","u","s","h"," ","1">>}, sep \in {<<";">>, <<" ">>}}

StmtInputs == {Flatten(u) : u \in SeqsUpTo(StmtUnits, MaxStmts)}

\* push e;
Prog(e) == <<"p","u","s","h"," ">> \o e \o <<";">>

\* Expressions of literals joined by binary operators.
Operands == {<<"1">>, <<"2">>, <<"3">>, <<"4",".","5">>}

BinaryOperators == {"+", "-", "*", "/"}

RECURSIVE BinaryTexts(_)
BinaryTexts(n) ==
  IF n = 0 THEN Operands
  ELSE {t \o <<op>> \o o : t \in BinaryTexts(n - 1), op \in BinaryOperators, o \in Operands}

BinaryInputs == {Prog(t) : t \in UNION {BinaryTexts(n) : n \in 0..MaxOps}}

\* Any short text in the place of the expression.
ExprAlphabet == {"1", "+", "-", "*", "(", ")"}

ExprInputs == {Prog(e) : e \in SeqsUpTo(ExprAlphabet, MaxExpr)}

RECURSIVE Factors(_)
\* Texts of the production factor, nested to depth d.
Factors(d) ==
  IF d = 0
  THEN {<<"5">>, <<"2",".","5">>, <<"n">>, <<"(","1","+","2",")">>, <<"n","(","1",",","2",")">>}
  ELSE Factors(d - 1)
       \cup {<<"-">> \o f : f \in Factors(d - 1)}
       \cup {<<"+">> \o f : f \in Factors(d - 1)}
       \cup {<<"(">> \o f \o <<")">> : f \in Factors(d - 1)}

FactorTexts == Factors(MaxDepth)

\* A unary operator applied to a factor.
UnaryInputs == {Prog(<<u>> \o f) : u \in {"+", "-"}, f \in FactorTexts}

Inputs == RawInputs \cup StmtInputs \cup BinaryInputs \cup ExprInputs \cup UnaryInputs

(***************************************************************************)
(* main: the state machine.                                                *)
(*   pc "main"       before line 19                                        *)
(*      "collect"    in the collect() of line 20                           *)
(*      "parser_new" at line 23                                            *)
(*      "parse"      in the loop of parse_stmt_seq                         *)
(*      "compile"    in the loop of compile_stmt over the StmtSeq          *)
(*      "done"       main returned                                         *)
(*      "exit", "panic", "hang"  the ways a call does not return           *)
(* lexer is the lexer in scope (the first, then the second), toks the      *)
(* vector collect() builds, stmts the vector of parse_stmt_seq, idx the    *)
(* position of the for loop of compile_stmt, code the compiler's vector,   *)
(* diag the message printed before point_error, fault the reason of a      *)
(* panic or hang.                                                          *)
(***************************************************************************)
Terminal == {"done", "exit", "panic", "hang"}

Init ==
  /\ input \in Inputs
  /\ pc = "main"
  /\ lexer = RawLexer(input)
  /\ toks = <<>>
  /\ stmts = <<>>
  /\ idx = 0
  /\ code = <<>>
  /\ diag = NoDiag
  /\ fault = NoFault

\* The state after a call of the lexer or the parser that returned r.
Returned(r, next) ==
  /\ pc' = IF r.st = "ok" THEN next ELSE r.st
  /\ lexer' = r.lx
  /\ diag' = r.diag
  /\ fault' = r.fault

\* main, line 19: Lexer::new(&input)
MainLexerNew ==
  /\ pc = "main"
  /\ \E r \in {LexerNew(input)} : Returned(r, "collect")
  /\ UNCHANGED <<input, toks, stmts, idx, code>>

\* main, line 20: one LexerIterator::next of lexer.into_iter().collect().
\* The vector is followed up to one token per character and one more.
IteratorNext ==
  /\ pc = "collect"
  /\ Len(toks) <= Len(input)
  /\ \E r \in {lex_token(lexer)} :
       /\ Returned(r, IF r.v.k = "None" THEN "parser_new" ELSE "collect")
       /\ toks' = IF r.st = "ok" /\ r.v.k # "None" THEN Append(toks, r.v) ELSE toks
  /\ UNCHANGED <<input, stmts, idx, code>>

\* main, lines 23-24: the second Lexer::new and Parser::new
MainParserNew ==
  /\ pc = "parser_new"
  /\ \E r \in {LexerNew(input)} : Returned(r, "parse")
  /\ UNCHANGED <<input, toks, stmts, idx, code>>

\* main, line 25: one iteration of the loop of parse_stmt_seq
ParseStmtSeqIter ==
  /\ pc = "parse"
  /\ \E r \in {parse_stmt_seq_iter(lexer)} :
       /\ Returned(r, IF r.v.k = "None" THEN "compile" ELSE "parse")
       /\ stmts' = IF r.st = "ok" /\ r.v.k # "None" THEN Append(stmts, r.v) ELSE stmts
  /\ UNCHANGED <<input, toks, idx, code>>

\* main, line 29: one iteration of the for loop of compile_stmt over the
\* sequence, or its end and the return of main
CompileStmt ==
  /\ pc = "compile"
  /\ \E r \in {IF idx < Len(stmts) THEN compile_stmt(code, stmts[idx + 1]) ELSE Compiled(code)} :
       /\ pc' = IF r.st # "ok" THEN r.st ELSE IF idx < Len(stmts) THEN "compile" ELSE "done"
       /\ code' = IF r.st = "ok" THEN r.code ELSE code
       /\ fault' = r.fault
       /\ idx' = IF r.st = "ok" /\ idx < Len(stmts) THEN idx + 1 ELSE idx
  /\ UNCHANGED <<input, lexer, toks, stmts, diag>>

Next ==
  \/ MainLexerNew
  \/ IteratorNext
  \/ MainParserNew
  \/ ParseStmtSeqIter
  \/ CompileStmt

Spec == Init /\ [][Next]_vars

(***************************************************************************)
(* main as a function of the source text: what a run ends in.              *)
(***************************************************************************)
RECURSIVE collect_loop(_, _)
\* The collect() of line 20 from the lexer lx on, n tokens collected: v is
\* the rest of the vector.  A collection of more tokens than the text has
\* characters is not followed further (st is "collect").
collect_loop(lx, n) ==
  IF n > Len(lx.input) THEN [st |-> "collect", lx |-> lx, v |-> <<>>, diag |-> NoDiag, fault |-> NoFault]
  ELSE Then(lex_token(lx), LAMBDA r :
         IF r.v.k = "None" THEN Ok(r.lx, <<>>)
         ELSE Then(collect_loop(r.lx, n + 1), LAMBDA rest : Ok(rest.lx, <<r.v>> \o rest.v)))

Ended(st, c) == [pc |-> st, code |-> c]

\* main, lines 23-30, for a text the first lexer has been iterated over.
RunParseCompile(s) ==
  Let(LexerNew(s), LAMBDA l :
    IF l.st # "ok" THEN Ended(l.st, <<>>)
    ELSE Let(parse_stmt_seq(l.lx), LAMBDA p :
           IF p.st # "ok" THEN Ended(p.st, <<>>)
           ELSE Let(compile_stmt_seq(<<>>, p.v), LAMBDA c :
                  IF c.st # "ok" THEN Ended(c.st, <<>>) ELSE Ended("done", c.code))))

\* main, lines 19-30: pc is where the run ends and code the instruction
\* list printed by a run that ends in "done".
Run(s) ==
  Let(LexerNew(s), LAMBDA l :
    IF l.st # "ok" THEN Ended(l.st, <<>>)
    ELSE Let(collect_loop(l.lx, 0), LAMBDA t :
           IF t.st # "ok" THEN Ended(t.st, <<>>) ELSE RunParseCompile(s)))

\* What the run of the state machine has ended in.
Outcome == Ended(pc, IF pc = "done" THEN code ELSE <<>>)

(***************************************************************************)
(* Properties.                                                             *)
(***************************************************************************)
\* The text e of a source text push e;
IsPushProgram(s) ==
  /\ Len(s) >= 6
  /\ SubSeq(s, 1, 5) = <<"p","u","s","h"," ">>
  /\ s[Len(s)] = ";"

ExprText(s) == SubSeq(s, 6, Len(s) - 1)

\* C1: a statement followed directly by another statement or by end-of-input
\* is accepted: the parser never stops on a missing ';' when the lookahead
\* starts a statement or is end-of-input.
C1_SemicolonOptional ==
  ~(/\ diag = "Expected Semi"
    /\ lexer.lookahead.k \in ZeroArgTokens \cup {"Push", "None"})

\* The text s opens a string literal that is never closed: after the opening
\* quote come only ordinary characters, and then possibly one backslash.
EndsInsideString(s) ==
  /\ Len(s) >= 1
  /\ s[1] = "\""
  /\ \A i \in 2..(Len(s) - 1) : s[i] \notin {"\"", "\\"}
  /\ Len(s) >= 2 => s[Len(s)] # "\""

\* C2: when the input ends inside a string literal, lexing stops in the
\* unterminated-string fatal diagnostic.
C2_UnterminatedStringIsFatal ==
  (pc # "main" /\ EndsInsideString(input))
    => (pc = "exit" /\ diag = "Unexpected end of input while parsing string")

\* C3: a statement made of a zero-argument keyword compiles to exactly the
\* one operand-less instruction of that keyword, at every occurrence.
C3_ZeroArgKeywordInstruction ==
  \A w \in KeywordTexts :
    /\ (input = w \o <<";">> /\ pc \in Terminal)
         => (pc = "done" /\ code = <<Instr(KEYWORDS[w].k)>>)
    /\ (input = w \o <<";">> \o w \o <<";">> /\ pc \in Terminal)
         => (pc = "done" /\ code = <<Instr(KEYWORDS[w].k), Instr(KEYWORDS[w].k)>>)

RECURSIVE TokensFrom(_)
\* Every token of the text from the lexer lx on, by lex_token.
TokensFrom(lx) ==
  Let(lex_token(lx), LAMBDA r :
    IF r.st # "ok" \/ r.v.k = "None" THEN <<>>
    ELSE Let(TokensFrom(r.lx), LAMBDA rest : <<r.v>> \o rest))

\* C4: the token vector collected from a freshly constructed lexer holds
\* every token of the source, in order, from the first on.
C4_CollectYieldsEveryToken ==
  pc = "parser_new" =>
    /\ toks = TokensFrom(RawLexer(input))
    /\ input = Prog(<<"1","+","2","*","3">>)
         => toks = <<Tok("Push"), TokV("Int", 1), Tok("Plus"), TokV("Int", 2),
                     Tok("Mul"), TokV("Int", 3), Tok("Semi")>>

\* The text e is literals joined by binary operators.
IsBinaryText(e) ==
  /\ e # <<>>
  /\ \A i \in 1..Len(e) : e[i] \in Digit \cup {"."} \cup BinaryOperators
  /\ e[1] \in Digit
  /\ e[Len(e)] \notin BinaryOperators
  /\ \A i \in 2..Len(e) :
       /\ e[i] \in BinaryOperators => e[i - 1] \notin BinaryOperators
       /\ e[i - 1] \in BinaryOperators => e[i] \in Digit
       /\ e[i] = "." => \A j \in 1..(i - 1) :
            e[j] = "." => \E m \in (j + 1)..(i - 1) : e[m] \in BinaryOperators

\* The instruction of a binary operator.
OperatorInstr(c) ==
  IF c = "+" THEN Instr("Add")
  ELSE IF c = "-" THEN Instr("Fox")
  ELSE IF c = "*" THEN Instr("Rooster")
  ELSE Instr("Div")

Max(S) == CHOOSE x \in S : \A y \in S : y <= x

RECURSIVE Postfix(_)
\* The postfix emission of the tree of the text e in which * and / bind
\* tighter than + and -, and operators of a level associate to the left: the
\* root is the last + or -, else the last * or /, else e is a literal.
Postfix(e) ==
  Let({i \in 1..Len(e) : e[i] \in {"+", "-"}}, LAMBDA low :
    Let({i \in 1..Len(e) : e[i] \in {"*", "/"}}, LAMBDA high :
      IF low \cup high = {}
      THEN IF \E i \in 1..Len(e) : e[i] = "."
           THEN <<InstrV("PushFloat", FloatValue(e))>>
           ELSE <<InstrV("Push", DecimalValue(e))>>
      ELSE Let(IF low # {} THEN Max(low) ELSE Max(high), LAMBDA i :
             Let(Postfix(SubSeq(e, 1, i - 1)), LAMBDA l :
               Let(Postfix(SubSeq(e, i + 1, Len(e))), LAMBDA r :
                 l \o r \o <<OperatorInstr(e[i])>>)))))

\* C5: a push of literals joined by + - * / compiles to the postfix emission
\* of the tree with * and / binding tighter and each level associating to
\* the left; 1 - 2 + 3 compiles as (1 - 2) + 3 and 1 + 2 * 3 as 1 + (2 * 3).
C5_PostfixPrecedenceLeftAssoc ==
  (pc \in Terminal /\ IsPushProgram(input) /\ IsBinaryText(ExprText(input))) =>
    /\ pc = "done"
    /\ code = Postfix(ExprText(input))
    /\ input = Prog(<<"1","-","2","+","3">>) =>
         code = <<InstrV("Push", 1), InstrV("Push", 2), Instr("Fox"),
                  InstrV("Push", 3), Instr("Add")>>
    /\ input = Prog(<<"1","+","2","*","3">>) =>
         code = <<InstrV("Push", 1), InstrV("Push", 2), InstrV("Push", 3),
                  Instr("Rooster"), Instr("Add")>>

\* C5 witness: push 1-2+3; has been compiled.
C5_Witness ==
  /\ pc = "done"
  /\ input = Prog(<<"1","-","2","+","3">>)
  /\ Len(code) = 5

\* C6: push +f compiles, to the instructions of push f.
C6_UnaryPlusErased ==
  (/\ pc \in Terminal
   /\ IsPushProgram(input)
   /\ Len(input) >= 7
   /\ input[6] = "+"
   /\ SubSeq(input, 7, Len(input) - 1) \in FactorTexts)
    => (pc = "done" /\ Outcome = Run(Prog(SubSeq(input, 7, Len(input) - 1))))

\* The text of push -f; is a unary minus applied to the factor f.
IsNegatedFactor(s) ==
  /\ IsPushProgram(s)
  /\ Len(s) >= 7
  /\ s[6] = "-"
  /\ SubSeq(s, 7, Len(s) - 1) \in FactorTexts

\* C7: push -f ends as push (0 - f) does: where f compiles, in push-integer
\* 0, the code of f, subtract; every instruction is a variant of Code, none
\* of which negates.
C7_UnaryMinusIsZeroMinus ==
  (pc \in Terminal /\ IsNegatedFactor(input)) =>
    Let(SubSeq(input, 7, Len(input) - 1), LAMBDA f :
      Let(Run(Prog(f)), LAMBDA rf :
        /\ Outcome = Run(Prog(<<"(", "0", "-">> \o f \o <<")">>))
        /\ rf.pc = "done" =>
             /\ pc = "done"
             /\ code = <<InstrV("Push", 0)>> \o rf.code \o <<Instr("Fox")>>
        /\ \A i \in 1..Len(code) : code[i].op \in Code))

\* C7 witness: push --5; has been compiled.
C7_Witness ==
  /\ pc = "done"
  /\ input = Prog(<<"-", "-", "5">>)
  /\ Len(code) = 5

\* C8: whenever a lexical or parse error is detected, the diagnostic is
\* rendered and the run ends in exit(1): column - 2 is not negative.
C8_DiagnosticCompletes ==
  diag # NoDiag => (pc = "exit" /\ lexer.col >= 2)

\* The number of newlines among the first n characters of s.
NewlinesIn(s, n) == Cardinality({i \in 1..n : s[i] = "\n"})

\* The number of characters of the first n that follow the last newline.
SinceNewline(s, n) ==
  IF NewlinesIn(s, n) = 0 THEN n
  ELSE n - Max({i \in 1..n : s[i] = "\n"})

\* C9: after pos characters consumed, line is 1 plus the newlines consumed
\* and col the characters consumed since the last consumed newline.
C9_PositionBookkeeping ==
  pc # "main" =>
    /\ lexer.pos <= Len(input)
    /\ lexer.line = 1 + NewlinesIn(input, lexer.pos)
    /\ lexer.col = SinceNewline(input, lexer.pos)

\* C10: every step of the iteration that returns a token consumes at least
\* one character.
C10_TokenConsumesCharacter ==
  [][(pc = "collect" /\ Len(toks') > Len(toks)) => lexer'.pos > lexer.pos]_vars

====
